---- MODULE Spec2Model ----
(***************************************************************************)
(* The request layer of the playground UI server (ui/src/main.rs): the     *)
(* three handlers compile / execute / format, the generic with_sandbox     *)
(* driver, the Error type and its Display text, the request and response   *)
(* conversions and the three string-to-enum parsers.  The sandbox module   *)
(* (mod sandbox) is not part of the source at hand; Sandbox::new and the   *)
(* three sandbox operations are modelled from the specification.           *)
(***************************************************************************)
EXTENDS Naturals, Sequences, FiniteSets, TLC

VARIABLES pc, req, sandbox, call, opResult, err, reply

vars == <<pc, req, sandbox, call, opResult, err, reply>>

(* ------------------------------ bounds -------------------------------- *)

\* Number of requests served concurrently (one handler thread each).
NumRequests == 2

\* The process-wide ceiling on live sandboxes.
MaxSandboxes == 1

Requests == 1..NumRequests

(* --------------------------- Rust Result ------------------------------ *)

Ok(v) == [ok |-> TRUE, val |-> v]
Err(e) == [ok |-> FALSE, err |-> e]

(* ------------------------- request strings ---------------------------- *)

\* The strings a request may carry in each enum field: every string of the
\* parser's table and one string outside it.
TargetStrings == {"asm", "llvm-ir", "wasm"}
ChannelStrings == {"stable", "beta", "nightly", "dev"}
ModeStrings == {"debug", "release", "fast"}
CodeStrings == {"fn main(){}"}

\* A sample of them for the runs with several concurrent requests: one
\* string of each table, and the string outside it for target and channel.
SampleTargetStrings == {"asm", "wasm"}
SampleChannelStrings == {"stable", "dev"}
SampleModeStrings == {"debug"}

(* ------------------------------ Error --------------------------------- *)

NoError == [variant |-> "NoError"]
ErrorSandbox(e) == [variant |-> "Sandbox", err |-> e]
ErrorSerialization(e) == [variant |-> "Serialization", err |-> e]
ErrorDeserialization(e) == [variant |-> "Deserialization", err |-> e]
ErrorInvalidTarget(s) == [variant |-> "InvalidTarget", value |-> s]
ErrorInvalidChannel(s) == [variant |-> "InvalidChannel", value |-> s]
ErrorInvalidMode(s) == [variant |-> "InvalidMode", value |-> s]
ErrorRequestMissing == [variant |-> "RequestMissing"]

\* {:?} of a String: the string in double quotes (none of the request
\* strings holds a character that needs escaping).
DebugFmt(s) == "\"" \o s \o "\""

\* Mutant: the Sandbox variant displays the inner error alone.
ErrorToString_NoPrefix(e) ==
    CASE e.variant = "Sandbox" -> e.err
      [] e.variant = "Serialization" -> "Unable to serialize response: " \o e.err
      [] e.variant = "Deserialization" -> "Unable to deserialize request: " \o e.err
      [] e.variant = "InvalidTarget" ->
            "The value " \o DebugFmt(e.value) \o " is not a valid target"
      [] e.variant = "InvalidChannel" ->
            "The value " \o DebugFmt(e.value) \o " is not a valid channel"
      [] e.variant = "InvalidMode" ->
            "The value " \o DebugFmt(e.value) \o " is not a valid mode"
      [] e.variant = "RequestMissing" -> "No request was provided"

\* Display of Error (quick_error's display(...) lines).
ErrorToString(e) ==
    CASE e.variant = "Sandbox" -> "Sandbox operation failed: " \o e.err
      [] e.variant = "Serialization" -> "Unable to serialize response: " \o e.err
      [] e.variant = "Deserialization" -> "Unable to deserialize request: " \o e.err
      [] e.variant = "InvalidTarget" ->
            "The value " \o DebugFmt(e.value) \o " is not a valid target"
      [] e.variant = "InvalidChannel" ->
            "The value " \o DebugFmt(e.value) \o " is not a valid channel"
      [] e.variant = "InvalidMode" ->
            "The value " \o DebugFmt(e.value) \o " is not a valid mode"
      [] e.variant = "RequestMissing" -> "No request was provided"

(* ------------------------------ parsers ------------------------------- *)

parse_target(s) ==
    IF s = "asm" THEN Ok("Assembly")
    ELSE IF s = "llvm-ir" THEN Ok("LlvmIr")
    ELSE Err(ErrorInvalidTarget(s))

parse_channel(s) ==
    IF s = "stable" THEN Ok("Stable")
    ELSE IF s = "beta" THEN Ok("Beta")
    ELSE IF s = "nightly" THEN Ok("Nightly")
    ELSE Err(ErrorInvalidChannel(s))

\* Mutant: an unknown mode falls back to Debug instead of failing.
parse_mode_Default(s) ==
    IF s = "release" THEN Ok("Release") ELSE Ok("Debug")

parse_mode(s) ==
    IF s = "debug" THEN Ok("Debug")
    ELSE IF s = "release" THEN Ok("Release")
    ELSE Err(ErrorInvalidMode(s))

(* ------------------------ request value objects ----------------------- *)

NoRequest == [kind |-> "none"]

\* struct CompileRequest, with its string fields drawn from the given sets.
CompileRequest(targets, channels, modes, tests) ==
    [kind : {"compile"}, target : targets, channel : channels,
     mode : modes, tests : tests, code : CodeStrings]

\* struct ExecuteRequest.
ExecuteRequest(channels, modes, tests) ==
    [kind : {"execute"}, channel : channels, mode : modes,
     tests : tests, code : CodeStrings]

\* struct FormatRequest.
FormatRequest == [kind : {"format"}, code : CodeStrings]

\* Every request body over the full string sets, and the sample.
AllBodies ==
    CompileRequest(TargetStrings, ChannelStrings, ModeStrings, BOOLEAN)
      \cup ExecuteRequest(ChannelStrings, ModeStrings, BOOLEAN)
      \cup FormatRequest

SampleBodies ==
    CompileRequest(SampleTargetStrings, SampleChannelStrings, SampleModeStrings, {FALSE})
      \cup ExecuteRequest(SampleChannelStrings, SampleModeStrings, {FALSE})
      \cup FormatRequest

\* impl TryFrom<CompileRequest> for sandbox::CompileRequest: the three try!
\* in field order, the first failure returned.
CompileTryFrom(me) ==
    LET t == parse_target(me.target)
        c == parse_channel(me.channel)
        m == parse_mode(me.mode)
    IN  IF ~t.ok THEN t
        ELSE IF ~c.ok THEN c
        ELSE IF ~m.ok THEN m
        ELSE Ok([op |-> "compile", target |-> t.val, channel |-> c.val,
                 mode |-> m.val, tests |-> me.tests, code |-> me.code])

\* impl TryFrom<ExecuteRequest> for sandbox::ExecuteRequest.
ExecuteTryFrom(me) ==
    LET c == parse_channel(me.channel)
        m == parse_mode(me.mode)
    IN  IF ~c.ok THEN c
        ELSE IF ~m.ok THEN m
        ELSE Ok([op |-> "execute", channel |-> c.val, mode |-> m.val,
                 tests |-> me.tests, code |-> me.code])

\* impl From<FormatRequest> for sandbox::FormatRequest.
FormatFrom(me) == [op |-> "format", code |-> me.code]

(* ----------------------- response value objects ----------------------- *)

\* The values a sandbox operation can answer with.  success = FALSE is a
\* program that failed to compile, run or format: still a response.
SandboxCompileResponses ==
    {[success |-> TRUE, code |-> "<artifact>", stdout |-> "<out>", stderr |-> "<warn>"],
     [success |-> FALSE, code |-> "", stdout |-> "<out>", stderr |-> "<diag>"]}

SandboxExecuteResponses ==
    {[success |-> TRUE, stdout |-> "<out>", stderr |-> "<warn>"],
     [success |-> FALSE, stdout |-> "<out>", stderr |-> "<diag>"]}

SandboxFormatResponses ==
    {[success |-> TRUE, code |-> "<formatted>", stdout |-> "<out>", stderr |-> "<warn>"],
     [success |-> FALSE, code |-> "fn main(){}", stdout |-> "<out>", stderr |-> "<diag>"]}

\* Mutant: stdout and stderr change places.
CompileResponseFrom_Swapped(me) ==
    [kind |-> "compile", success |-> me.success, code |-> me.code,
     stdout |-> me.stderr, stderr |-> me.stdout]

\* impl From<sandbox::CompileResponse> for CompileResponse.
CompileResponseFrom(me) ==
    [kind |-> "compile", success |-> me.success, code |-> me.code,
     stdout |-> me.stdout, stderr |-> me.stderr]

\* impl From<sandbox::ExecuteResponse> for ExecuteResponse.
ExecuteResponseFrom(me) ==
    [kind |-> "execute", success |-> me.success,
     stdout |-> me.stdout, stderr |-> me.stderr]

\* impl From<sandbox::FormatResponse> for FormatResponse.
FormatResponseFrom(me) ==
    [kind |-> "format", success |-> me.success, code |-> me.code,
     stdout |-> me.stdout, stderr |-> me.stderr]

(* ------------------------------- JSON --------------------------------- *)

\* A JSON object is the sequence of its <<key, value>> members in the order
\* the derived Serialize writes them; a bool is written true / false.
JsonBool(b) == IF b THEN "true" ELSE "false"

\* #[derive(Serialize)] of CompileResponse, ExecuteResponse, FormatResponse.
ResponseToJson(resp) ==
    IF resp.kind = "execute"
    THEN << <<"success", JsonBool(resp.success)>>, <<"stdout", resp.stdout>>,
            <<"stderr", resp.stderr>> >>
    ELSE << <<"success", JsonBool(resp.success)>>, <<"code", resp.code>>,
            <<"stdout", resp.stdout>>, <<"stderr", resp.stderr>> >>

\* struct ErrorJson { error: String } and its derived Serialize.
ErrorJson(e) == << <<"error", ErrorToString(e)>> >>

FATAL_ERROR_JSON ==
    << <<"error", "Multiple cascading errors occurred, abandon all hope">> >>

\* The text of the serde_json and bodyparser errors (external crates).
SerdeErrorText == "<serde_json error>"
BodyErrorText == "<body error>"

(* ------------------------------ sandbox ------------------------------- *)

\* Requests whose Sandbox is provisioned and not yet torn down.
Live == {q \in Requests : sandbox[q] = "live"}

\* Mutant: no ceiling is enforced.
SandboxNew_NoCeiling == {Ok("live"), Err("ProvisioningFailed")}

\* Sandbox::new(): ResourcesExhausted when the ceiling is reached, before
\* provisioning begins; otherwise provisioning succeeds or fails.
SandboxNew ==
    IF Cardinality(Live) >= MaxSandboxes
    THEN {Err("ResourcesExhausted")}
    ELSE {Ok("live"), Err("ProvisioningFailed")}

\* Sandbox::compile / execute / format: a response, or a substrate error.
SandboxOperation(c) ==
    LET responses == CASE c.op = "compile" -> SandboxCompileResponses
                       [] c.op = "execute" -> SandboxExecuteResponses
                       [] c.op = "format" -> SandboxFormatResponses
    IN  {Ok(x) : x \in responses} \cup {Err("IoFailure"), Err("LimitExceeded")}

NoCall == [op |-> "none"]
NoResult == [ok |-> FALSE, err |-> "none"]
NoReply == [status |-> "none", body |-> <<>>]

(* ------------------------------ handlers ------------------------------ *)

Init ==
    /\ pc = [r \in Requests |-> "idle"]
    /\ req = [r \in Requests |-> NoRequest]
    /\ sandbox = [r \in Requests |-> "none"]
    /\ call = [r \in Requests |-> NoCall]
    /\ opResult = [r \in Requests |-> NoResult]
    /\ err = [r \in Requests |-> NoError]
    /\ reply = [r \in Requests |-> NoReply]

\* What bodyparser::Struct<Req> yields for the handler's request type: a
\* parse error, no body, or one of the given bodies.
BodyOutcomes(bodies) ==
    {Err(BodyErrorText)} \cup {Ok(NoRequest)} \cup {Ok(b) : b \in bodies}

\* with_sandbox, lines 87-89: read the body; a parse error is
\* Error::Deserialization, an absent body Error::RequestMissing.
ReadBodyFrom(r, bodies) ==
    /\ pc[r] = "idle"
    /\ \E b \in BodyOutcomes(bodies) :
          IF ~b.ok
          THEN /\ err' = [err EXCEPT ![r] = ErrorDeserialization(b.err)]
               /\ pc' = [pc EXCEPT ![r] = "failed"]
               /\ req' = req
          ELSE IF b.val = NoRequest
          THEN /\ err' = [err EXCEPT ![r] = ErrorRequestMissing]
               /\ pc' = [pc EXCEPT ![r] = "failed"]
               /\ req' = req
          ELSE /\ req' = [req EXCEPT ![r] = b.val]
               /\ pc' = [pc EXCEPT ![r] = "parsed"]
               /\ err' = err
    /\ UNCHANGED <<sandbox, call, opResult, reply>>

ReadBody(r) == ReadBodyFrom(r, SampleBodies)

ReadAnyBody(r) == ReadBodyFrom(r, AllBodies)

\* with_sandbox, line 91: let sandbox = try!(Sandbox::new()).
Provision(r) ==
    /\ pc[r] = "parsed"
    /\ \E s \in SandboxNew :
          IF s.ok
          THEN /\ sandbox' = [sandbox EXCEPT ![r] = s.val]
               /\ pc' = [pc EXCEPT ![r] = "provisioned"]
               /\ err' = err
          ELSE /\ err' = [err EXCEPT ![r] = ErrorSandbox(s.err)]
               /\ pc' = [pc EXCEPT ![r] = "failed"]
               /\ sandbox' = sandbox
    /\ UNCHANGED <<req, call, opResult, reply>>

\* The conversion each handler's closure applies to the request before it
\* calls the sandbox: try_into for compile and execute, into for format.
ClosureRequest(me) ==
    CASE me.kind = "compile" -> CompileTryFrom(me)
      [] me.kind = "execute" -> ExecuteTryFrom(me)
      [] me.kind = "format" -> Ok(FormatFrom(me))

\* Mutant: the early return of a failed validation leaves the Sandbox live.
Invoke_Leak(r) ==
    /\ pc[r] = "provisioned"
    /\ LET c == ClosureRequest(req[r])
       IN  IF c.ok
           THEN /\ call' = [call EXCEPT ![r] = c.val]
                /\ pc' = [pc EXCEPT ![r] = "busy"]
                /\ UNCHANGED err
           ELSE /\ err' = [err EXCEPT ![r] = c.err]
                /\ pc' = [pc EXCEPT ![r] = "failed"]
                /\ call' = call
    /\ UNCHANGED <<req, sandbox, opResult, reply>>

\* The closure of compile / execute / format up to the sandbox call.  The
\* closure owns the Sandbox: an early return through try! drops it.
Invoke(r) ==
    /\ pc[r] = "provisioned"
    /\ LET c == ClosureRequest(req[r])
       IN  IF c.ok
           THEN /\ call' = [call EXCEPT ![r] = c.val]
                /\ pc' = [pc EXCEPT ![r] = "busy"]
                /\ UNCHANGED <<sandbox, err>>
           ELSE /\ err' = [err EXCEPT ![r] = c.err]
                /\ sandbox' = [sandbox EXCEPT ![r] = "released"]
                /\ pc' = [pc EXCEPT ![r] = "failed"]
                /\ call' = call
    /\ UNCHANGED <<req, opResult, reply>>

\* The sandbox call returns and the closure ends: .map(Response::from),
\* .map_err(Error::Sandbox); the Sandbox is dropped with the closure.
Return(r) ==
    /\ pc[r] = "busy"
    /\ \E res \in SandboxOperation(call[r]) :
          /\ opResult' = [opResult EXCEPT ![r] = res]
          /\ IF res.ok
             THEN /\ pc' = [pc EXCEPT ![r] = "returned"]
                  /\ err' = err
             ELSE /\ pc' = [pc EXCEPT ![r] = "failed"]
                  /\ err' = [err EXCEPT ![r] = ErrorSandbox(res.err)]
    /\ sandbox' = [sandbox EXCEPT ![r] = "released"]
    /\ UNCHANGED <<req, call, reply>>

\* The response value the closure hands back to with_sandbox.
ClosureResponse(r) ==
    CASE call[r].op = "compile" -> CompileResponseFrom(opResult[r].val)
      [] call[r].op = "execute" -> ExecuteResponseFrom(opResult[r].val)
      [] call[r].op = "format" -> FormatResponseFrom(opResult[r].val)

\* with_sandbox, lines 93-94 and 98: the response serializes and is sent
\* with status Ok.
RespondOk(r) ==
    /\ pc[r] = "returned"
    /\ reply' = [reply EXCEPT ![r] =
                    [status |-> "Ok", body |-> ResponseToJson(ClosureResponse(r))]]
    /\ pc' = [pc EXCEPT ![r] = "done"]
    /\ UNCHANGED <<req, sandbox, call, opResult, err>>

\* with_sandbox, line 93: try!(serde_json::ser::to_string(&resp)) fails.
SerializeFail(r) ==
    /\ pc[r] = "returned"
    /\ err' = [err EXCEPT ![r] = ErrorSerialization(SerdeErrorText)]
    /\ pc' = [pc EXCEPT ![r] = "failed"]
    /\ UNCHANGED <<req, sandbox, call, opResult, reply>>

\* Mutant: the error object is sent with status Ok.
RespondErr_StatusOk(r) ==
    /\ pc[r] = "failed"
    /\ reply' = [reply EXCEPT ![r] = [status |-> "Ok", body |-> ErrorJson(err[r])]]
    /\ pc' = [pc EXCEPT ![r] = "done"]
    /\ UNCHANGED <<req, sandbox, call, opResult, err>>

\* with_sandbox, lines 99-102: the error is sent as ErrorJson.
RespondErr(r) ==
    /\ pc[r] = "failed"
    /\ reply' = [reply EXCEPT ![r] =
                    [status |-> "InternalServerError", body |-> ErrorJson(err[r])]]
    /\ pc' = [pc EXCEPT ![r] = "done"]
    /\ UNCHANGED <<req, sandbox, call, opResult, err>>

\* Mutant: the fatal-error JSON is sent with status Ok.
RespondFatal_StatusOk(r) ==
    /\ pc[r] = "failed"
    /\ reply' = [reply EXCEPT ![r] = [status |-> "Ok", body |-> FATAL_ERROR_JSON]]
    /\ pc' = [pc EXCEPT ![r] = "done"]
    /\ UNCHANGED <<req, sandbox, call, opResult, err>>

\* with_sandbox, line 103: ErrorJson itself does not serialize.
RespondFatal(r) ==
    /\ pc[r] = "failed"
    /\ reply' = [reply EXCEPT ![r] =
                    [status |-> "InternalServerError", body |-> FATAL_ERROR_JSON]]
    /\ pc' = [pc EXCEPT ![r] = "done"]
    /\ UNCHANGED <<req, sandbox, call, opResult, err>>

Next ==
    \E r \in Requests :
       \/ ReadBody(r)
       \/ Provision(r)
       \/ Invoke(r)
       \/ Return(r)
       \/ RespondOk(r)
       \/ SerializeFail(r)
       \/ RespondErr(r)
       \/ RespondFatal(r)

Spec == Init /\ [][Next]_vars

\* One request alone, its body drawn from the full string sets.
NextOne ==
    \/ ReadAnyBody(1)
    \/ Provision(1)
    \/ Invoke(1)
    \/ Return(1)
    \/ RespondOk(1)
    \/ SerializeFail(1)
    \/ RespondErr(1)
    \/ RespondFatal(1)

SpecOne == Init /\ [][NextOne]_vars

(* ------------------------------ claims -------------------------------- *)

\* The strings of each closed set, as the claims name them.
InTargetSet(s) == s \in {"asm", "llvm-ir"}
InChannelSet(s) == s \in {"stable", "beta", "nightly"}
InModeSet(s) == s \in {"debug", "release"}

\* A compile or execute request with an enum string outside its closed set.
OutsideClosedSet(q) ==
    \/ /\ q.kind = "compile"
       /\ ~(InTargetSet(q.target) /\ InChannelSet(q.channel) /\ InModeSet(q.mode))
    \/ /\ q.kind = "execute"
       /\ ~(InChannelSet(q.channel) /\ InModeSet(q.mode))

Done(r) == pc[r] = "done"

\* C1: a compile or execute request with a target, channel or mode string
\* outside its closed set never has a Sandbox constructed for it.
C1_RejectedBeforeSandbox ==
    \A r \in Requests : OutsideClosedSet(req[r]) => sandbox[r] = "none"

\* The number of sandbox operations invoked on the Sandbox of request r.
OperationsInvoked(r) == IF call[r] = NoCall THEN 0 ELSE 1

\* C2: every Sandbox a handler constructs has had exactly one of compile,
\* execute, format invoked on it when its request completes.
C2_ExactlyOneOperation ==
    \A r \in Requests :
       (Done(r) /\ sandbox[r] # "none") => OperationsInvoked(r) = 1

\* C3: on every exit path of a request that constructed a Sandbox, the
\* Sandbox is released before the response or error goes back to the caller:
\* once the closure has ended (the result is being serialized, the error is
\* being reported, or the request is complete) the Sandbox is not live.
C3_ReleasedOnEveryExit ==
    \A r \in Requests :
       pc[r] \in {"returned", "failed", "done"} => sandbox[r] # "live"

\* Two requests complete after constructing a Sandbox, one through a failed
\* enum validation and one through a failed response serialization.
C3_Witness ==
    \E r, q \in Requests :
       /\ Done(r) /\ sandbox[r] = "released"
       /\ err[r].variant \in {"InvalidTarget", "InvalidChannel", "InvalidMode"}
       /\ Done(q) /\ sandbox[q] = "released"
       /\ err[q].variant = "Serialization"

\* C5: a compile or execute request with an enum string outside its closed
\* set always ends in InvalidTarget, InvalidChannel or InvalidMode carrying
\* the offending string, never in a Sandbox error.
C5_InvalidEnumIsValidationError ==
    \A r \in Requests :
       (Done(r) /\ OutsideClosedSet(req[r])) =>
          \/ err[r].variant = "InvalidTarget" /\ err[r].value = req[r].target
          \/ err[r].variant = "InvalidChannel" /\ err[r].value = req[r].channel
          \/ err[r].variant = "InvalidMode" /\ err[r].value = req[r].mode

\* Requests whose Sandbox is executing an operation.
Busy == {q \in Requests : pc[q] = "busy"}

ResourcesExhausted == ErrorSandbox("ResourcesExhausted")

NewFailed(r) == err[r].variant = "Sandbox" /\ sandbox[r] = "none"

\* C6 as stated: if Sandbox::new fails no operation is invoked and the
\* caller receives an error response whose message is the Sandbox error's
\* text.
C6_MessageIsSandboxText ==
    \A r \in Requests :
       NewFailed(r) =>
          /\ call[r] = NoCall /\ opResult[r] = NoResult
          /\ pc[r] \in {"failed", "done"}
          /\ Done(r) =>
                /\ reply[r].status = "InternalServerError"
                /\ reply[r].body = << <<"error", err[r].err>> >>

\* C6 as amended: if Sandbox::new fails no operation is invoked and the
\* caller receives an InternalServerError response whose message is
\* "Sandbox operation failed: " followed by the Sandbox error's text, or the
\* fixed fatal-error JSON when that error object does not serialize.
C6_MessageIsPrefixedSandboxText ==
    \A r \in Requests :
       NewFailed(r) =>
          /\ call[r] = NoCall /\ opResult[r] = NoResult
          /\ pc[r] \in {"failed", "done"}
          /\ Done(r) =>
                /\ reply[r].status = "InternalServerError"
                /\ \/ reply[r].body =
                         << <<"error", "Sandbox operation failed: " \o err[r].err>> >>
                   \/ reply[r].body = FATAL_ERROR_JSON

\* A request whose Sandbox::new failed has been answered with the error's
\* message.
C6_Witness ==
    \E r \in Requests :
       /\ NewFailed(r) /\ Done(r)
       /\ err[r].err = "ProvisioningFailed"
       /\ reply[r].body # FATAL_ERROR_JSON

\* The members of a JSON object.
Members(body) == {body[i] : i \in 1..Len(body)}

\* The body of request r's reply holds the fields of the sandbox Response,
\* each with the Response's value, and nothing else.
SameFields(r) ==
    LET sr == opResult[r].val
        common == {<<"success", JsonBool(sr.success)>>,
                   <<"stdout", sr.stdout>>, <<"stderr", sr.stderr>>}
    IN  IF call[r].op = "execute"
        THEN Len(reply[r].body) = 3 /\ Members(reply[r].body) = common
        ELSE /\ Len(reply[r].body) = 4
             /\ Members(reply[r].body) = common \cup {<<"code", sr.code>>}

\* C7 as stated: whenever a sandbox operation returns a Response the request
\* is answered with status Ok and the Response's fields unchanged.
C7_ResponseAlwaysOk ==
    \A r \in Requests :
       (Done(r) /\ opResult[r].ok) =>
          reply[r].status = "Ok" /\ SameFields(r)

\* C7 as amended: whenever a sandbox operation returns a Response (success
\* true or false) and the response serializes, the request is answered with
\* status Ok and the Response's fields unchanged; only a failed
\* serialization of the response turns it into an error response.
C7_ResponseOkUnlessSerializationFails ==
    \A r \in Requests :
       (Done(r) /\ opResult[r].ok) =>
          IF err[r] = NoError
          THEN reply[r].status = "Ok" /\ SameFields(r)
          ELSE /\ err[r] = ErrorSerialization(SerdeErrorText)
               /\ reply[r].status = "InternalServerError"

\* A compile that failed (success false) has been answered with status Ok.
C7_Witness ==
    \E r \in Requests :
       /\ Done(r) /\ opResult[r].ok /\ ~opResult[r].val.success
       /\ call[r].op = "compile"
       /\ reply[r].status = "Ok"

\* A body that is an error object and nothing else; a body with no error
\* field.
ErrorOnly(body) == Len(body) = 1 /\ body[1][1] = "error"
NoErrorField(body) == Len(body) > 0 /\ \A i \in 1..Len(body) : body[i][1] # "error"

\* C8 as stated: a Sandbox Error gives the caller only an error object
\* (status InternalServerError); a Response gives the caller no error field.
C8_ResponseNeverCarriesError ==
    \A r \in Requests :
       Done(r) =>
          /\ err[r].variant = "Sandbox" =>
                reply[r].status = "InternalServerError" /\ ErrorOnly(reply[r].body)
          /\ opResult[r].ok => NoErrorField(reply[r].body)

\* C8 as amended: each request yields either a complete success response or
\* a complete error, never both; a Sandbox Error gives the caller only an
\* error object holding one message (status InternalServerError); a Response
\* gives the caller no error field unless serializing the response fails, and
\* then the caller receives only an error object.
C8_ResponseOrErrorNeverBoth ==
    \A r \in Requests :
       Done(r) =>
          /\ \/ reply[r].status = "Ok" /\ NoErrorField(reply[r].body)
             \/ reply[r].status = "InternalServerError" /\ ErrorOnly(reply[r].body)
          /\ err[r].variant = "Sandbox" =>
                reply[r].status = "InternalServerError" /\ ErrorOnly(reply[r].body)
          /\ opResult[r].ok =>
                IF err[r].variant = "Serialization"
                THEN ErrorOnly(reply[r].body)
                ELSE NoErrorField(reply[r].body)

\* One request answered with the error of a failed sandbox operation, another
\* with a response.
C8_Witness ==
    \E r, q \in Requests :
       /\ Done(r) /\ opResult[r] = Err("IoFailure") /\ ErrorOnly(reply[r].body)
       /\ Done(q) /\ opResult[q].ok /\ NoErrorField(reply[q].body)

\* The fixed tables from request string to enum value.
TargetTable == {<<"asm", "Assembly">>, <<"llvm-ir", "LlvmIr">>}
ChannelTable == {<<"stable", "Stable">>, <<"beta", "Beta">>, <<"nightly", "Nightly">>}
ModeTable == {<<"debug", "Debug">>, <<"release", "Release">>}

\* C9: a sandbox compile or execute is invoked only with a request whose
\* every enum field is in its table, with the enum value the table assigns to
\* the string; a string outside the table, in any field, means no operation
\* is invoked.
C9_OnlyParsedEnumsReachSandbox ==
    \A r \in Requests :
       /\ call[r].op = "compile" =>
             /\ <<req[r].target, call[r].target>> \in TargetTable
             /\ <<req[r].channel, call[r].channel>> \in ChannelTable
             /\ <<req[r].mode, call[r].mode>> \in ModeTable
       /\ call[r].op = "execute" =>
             /\ <<req[r].channel, call[r].channel>> \in ChannelTable
             /\ <<req[r].mode, call[r].mode>> \in ModeTable
       /\ OutsideClosedSet(req[r]) =>
             /\ call[r] = NoCall /\ opResult[r] = NoResult
             /\ pc[r] \notin {"busy", "returned"}

\* A compile is running with the last entry of each table.
C9_Witness ==
    \E r \in Requests :
       /\ pc[r] = "busy" /\ call[r].op = "compile"
       /\ req[r].target = "llvm-ir" /\ call[r].target = "LlvmIr"
       /\ req[r].channel = "nightly" /\ call[r].channel = "Nightly"
       /\ req[r].mode = "release" /\ call[r].mode = "Release"

\* Every stage of request r succeeded: the body, Sandbox::new, the enum
\* validation, the sandbox operation and the serialization of the response.
AllStagesSucceeded(r) ==
    /\ req[r] # NoRequest
    /\ sandbox[r] # "none"
    /\ call[r] # NoCall
    /\ opResult[r].ok
    /\ err[r].variant # "Serialization"

\* Everything the handler of request r holds.
Local(r) == <<pc[r], req[r], sandbox[r], call[r], opResult[r], err[r], reply[r]>>

\* Some step of the handler of request r.
Step(r) ==
    \/ Provision(r) \/ Invoke(r) \/ Return(r)
    \/ RespondOk(r) \/ SerializeFail(r) \/ RespondErr(r) \/ RespondFatal(r)

\* C10: no failure is fatal to the request layer: a handler that has started
\* can always take its next step, a completed request has status Ok exactly
\* when every stage succeeded and InternalServerError otherwise, and a step
\* of one request changes nothing held by another.
C10_NoFailureIsFatal ==
    [][ \A r \in Requests :
           /\ Done(r)' =>
                 reply'[r].status =
                    IF AllStagesSucceeded(r)' THEN "Ok" ELSE "InternalServerError"
           /\ pc'[r] \notin {"idle", "done"} => (ENABLED Step(r))'
           /\ \A q \in Requests \ {r} :
                 pc'[q] # pc[q] => Local(r)' = Local(r) ]_vars

\* Two requests are complete, one with status Ok and one whose error could
\* not even be serialized.
C10_Witness ==
    \E r, q \in Requests :
       /\ Done(r) /\ reply[r].status = "Ok"
       /\ Done(q) /\ reply[q].body = FATAL_ERROR_JSON
       /\ reply[q].status = "InternalServerError"

====
